---------------------------- MODULE Spec2Model ----------------------------
(***************************************************************************)
(* Model of switchboard.manager (src/switchboard/manager.py): the          *)
(* SwitchManager.is_active evaluation (hierarchical keys, status dispatch, *)
(* condition combination, fault containment), the module-level condition   *)
(* set registry and its enumeration, the ambient context of the shared     *)
(* `operator`, the versioning receiver version_switch, and an is_active    *)
(* call running statement by statement beside a registry mutation.         *)
(*                                                                         *)
(* Python values are modelled as strings: "True", "False" and "None" are   *)
(* the three values `result is True / is False / None` distinguishes.      *)
(***************************************************************************)
EXTENDS Naturals, Sequences, FiniteSets, TLC

VARIABLES
    switches,               \* the Switch collection behind MongoModelDict: key -> record
    down,                   \* the keys on which the datastore fails
    registry,               \* module variable `registry`: id -> condition set
    registry_by_namespace,  \* module variable `registry_by_namespace`
    context,                \* operator.context (one dict on the shared manager)
    pc,                     \* per request: where the request handler stands
    call,                   \* the last is_active call: its inputs and its outcome
    journal,                \* the register and unregister calls made, in order
    listing,                \* the last get_all_conditions() enumeration
    versions,               \* the version records save_version has written
    outcome,                \* the last save or delete of a Switch, as its caller saw it
    ev,                     \* an is_active call under way, statement by statement
    mut                     \* a register or unregister call under way

\* what the callers of the registry observed
history == <<journal, listing>>

\* the audit trail of the switches and the last write
audit == <<versions, outcome>>

\* the calls that run step by step beside each other
race == <<ev, mut>>

aux == <<history, audit, race>>

vars == <<switches, down, registry, registry_by_namespace, context, pc, call,
          aux>>

-----------------------------------------------------------------------------
(* Bounds of the model *)

\* deepest key modelled: 3 gives the keys a, a:b and a:b:c
MaxDepth == 3

\* request handlers running at the same time
MaxRequests == 2

-----------------------------------------------------------------------------
(* Python values *)

PyTrue == "True"
PyFalse == "False"
PyNone == "None"

\* `default` was not passed: kwargs.pop('default', False) supplies False
NotGiven == "NotGiven"

EmptyDict == [x \in {} |-> PyNone]

\* d[k] = v
DictPut(d, k, v) == [x \in (DOMAIN d) \cup {k} |-> IF x = k THEN v ELSE d[x]]

\* d.pop(k, None)
DictPop(d, k) == [x \in (DOMAIN d) \ {k} |-> d[x]]

\* d.values(), in the order `order` gives the keys
RECURSIVE DictValues(_, _)
DictValues(d, order) ==
    IF order = <<>> THEN <<>>
    ELSE (IF Head(order) \in DOMAIN d THEN <<d[Head(order)]>> ELSE <<>>)
         \o DictValues(d, Tail(order))

Range(s) == {s[i] : i \in DOMAIN s}

Front(s) == SubSeq(s, 1, Len(s) - 1)

-----------------------------------------------------------------------------
(* Keys: strings, modelled as sequences of characters *)

Delimiter == ":"

Letters == <<"a", "b", "c", "d", "e">>

\* key.split(':'): the segments between delimiters (an empty segment is kept)
RECURSIVE Split(_)
Split(key) ==
    IF key = <<>> THEN << <<>> >>
    ELSE LET rest == Split(Tail(key))
         IN  IF Head(key) = Delimiter
             THEN << <<>> >> \o rest
             ELSE << <<Head(key)>> \o Head(rest) >> \o Tail(rest)

\* ':'.join(parts)
RECURSIVE Join(_)
Join(parts) ==
    IF parts = <<>> THEN <<>>
    ELSE IF Len(parts) = 1 THEN Head(parts)
    ELSE Head(parts) \o <<Delimiter>> \o Join(Tail(parts))

\* the key of n segments: a, a:b, a:b:c, ...
KeyOfDepth(n) == Join([i \in 1..n |-> <<Letters[i]>>])

Keys == {KeyOfDepth(n) : n \in 1..MaxDepth}

\* ':'.join(parts[:-1])
ParentKey(key) == Join(Front(Split(key)))


-----------------------------------------------------------------------------
(* Switches *)

DISABLED == "DISABLED"
SELECTIVE == "SELECTIVE"
GLOBAL == "GLOBAL"
INHERIT == "INHERIT"

Statuses == {DISABLED, SELECTIVE, GLOBAL, INHERIT}

INCLUDE == "i"
EXCLUDE == "e"

\* a payload no condition set can read
Malformed == "bad"

Namespaces == {"n1", "n2"}

Payloads == {INCLUDE, EXCLUDE, Malformed}

\* Switch.value: namespace -> condition payload
CondValues == UNION {[D -> Payloads] : D \in SUBSET Namespaces}

SwitchRecords == [status : Statuses, value : CondValues]

\* self[key] (MongoModelDict.__getitem__ wrapped in a SwitchProxy): the
\* stored record, KeyError when the key is not stored, another error when
\* the datastore fails on the key
GetItem(store, key) ==
    IF key \in down THEN [kind |-> "Error"]
    ELSE IF key \notin DOMAIN store THEN [kind |-> "KeyError"]
    ELSE [kind |-> "ok", switch |-> store[key]]

-----------------------------------------------------------------------------
(* Condition sets *)

Users == {"u1", "u2"}

\* the condition sets of the application: A and B share namespace n1
CsA == [id |-> "a", namespace |-> "n1", target |-> "u1"]
CsB == [id |-> "b", namespace |-> "n1", target |-> "u2"]
CsC == [id |-> "c", namespace |-> "n2", target |-> "u2"]

ConditionSets == {CsA, CsB, CsC}

\* ConditionSet.has_active_condition(condition, instances): True when an
\* included instance is present, False when an excluded one is, None (abstain)
\* when no instance matches; a payload it cannot read makes it raise
HasActiveCondition(cs, payload, instances) ==
    IF payload = Malformed THEN "Raise"
    ELSE IF cs.target \notin Range(instances) THEN PyNone
    ELSE IF payload = INCLUDE THEN PyTrue
    ELSE PyFalse

\* an iteration order of a dict keyed by namespace
Orders == {o \in [1..Cardinality(Namespaces) -> Namespaces] : Range(o) = Namespaces}

\* the keys of operator.context, in the order values() walks them
ContextOrder == <<"user">>

-----------------------------------------------------------------------------
(* SwitchManager.is_active *)

Event(op, key, cs, payload, instances) ==
    [op |-> op, key |-> key, cs |-> cs, payload |-> payload, instances |-> instances]

LookupEvent(key) == Event("lookup", key, "-", "-", <<>>)
ErrorEvent(key) == Event("error", key, "-", "-", <<>>)
CallEvent(key, cs, payload, instances) == Event("evaluate", key, cs.id, payload, instances)

\* default = kwargs.pop('default', False)
PopDefault(default) == IF default = NotGiven THEN PyFalse ELSE default

\* a parent's False that no longer ends the evaluation
AfterParentWithoutVeto(result, default) ==
    IF result = PyTrue THEN [stop |-> FALSE, default |-> PyTrue]
    ELSE [stop |-> FALSE, default |-> default]

\* a parent's True that no longer replaces the default
AfterParentKeepingDefault(result, default) ==
    IF result = PyFalse THEN [stop |-> TRUE, default |-> default]
    ELSE [stop |-> FALSE, default |-> default]

\* a parent whose result is dropped
AfterParentIgnored(result, default) == [stop |-> FALSE, default |-> default]

\* the parent's result decides: False is returned at once, True becomes the
\* default, anything else leaves the default alone
AfterParent(result, default) ==
    IF result = PyFalse THEN [stop |-> TRUE, default |-> default]
    ELSE IF result = PyTrue THEN [stop |-> FALSE, default |-> PyTrue]
    ELSE [stop |-> FALSE, default |-> default]

\* an undefined switch that resolves to False instead of the default
OnKeyErrorReturningFalse(default) == PyFalse

\* except KeyError: the switch is not defined, defer to the parent
OnKeyError(default) == default

\* a GLOBAL switch that holds conditions is sent on to them
StatusDispatchReadingConditions(switch, default) ==
    IF switch.status = GLOBAL /\ DOMAIN switch.value = {} THEN PyTrue
    ELSE IF switch.status = DISABLED THEN PyFalse
    ELSE IF switch.status = INHERIT THEN default
    ELSE "conditions"

\* an INHERIT switch taken for a DISABLED one
StatusDispatchInheritAsDisabled(switch, default) ==
    IF switch.status = GLOBAL THEN PyTrue
    ELSE IF switch.status = DISABLED THEN PyFalse
    ELSE IF switch.status = INHERIT THEN PyFalse
    ELSE "conditions"

\* the status alone decides for GLOBAL, DISABLED and INHERIT; "conditions"
\* sends a SELECTIVE switch on to its conditions
StatusDispatch(switch, default) ==
    IF switch.status = GLOBAL THEN PyTrue
    ELSE IF switch.status = DISABLED THEN PyFalse
    ELSE IF switch.status = INHERIT THEN default
    ELSE "conditions"

\* a switch without conditions that resolves to False instead of the default
OnNoConditionsReturningFalse(default) == PyFalse

\* if not conditions: return default
OnNoConditions(default) == default

\* instances = list(instances) if instances else []
\* instances.extend(self.context.values())
MergeInstances(instances) == instances \o DictValues(context, ContextOrder)

\* a True vote that ends the scan at once
OnVoteEndingOnTrue(result, return_value) ==
    IF result = PyFalse THEN [stop |-> TRUE, return_value |-> PyFalse]
    ELSE IF result = PyTrue THEN [stop |-> TRUE, return_value |-> PyTrue]
    ELSE [stop |-> FALSE, return_value |-> return_value]

\* what one vote does to the scan: False ends it, True is remembered
OnVote(result, return_value) ==
    IF result = PyFalse THEN [stop |-> TRUE, return_value |-> PyFalse]
    ELSE IF result = PyTrue THEN [stop |-> FALSE, return_value |-> PyTrue]
    ELSE [stop |-> FALSE, return_value |-> return_value]

\* for namespace, condition in conditions.iteritems(): ...
\* items: the namespaces still to scan, in iteration order; by_ns: the
\* dict registry_by_namespace the scan reads
RECURSIVE ScanConditions(_, _, _, _, _, _, _)
ScanConditions(by_ns, key, conditions, items, instances, return_value, log) ==
    IF items = <<>>
    THEN [kind |-> "return", value |-> return_value, log |-> log]
    ELSE LET namespace == Head(items)
             condition_set == by_ns[namespace]
         IN  IF namespace \notin DOMAIN by_ns
             THEN ScanConditions(by_ns, key, conditions, Tail(items), instances,
                                 return_value, log)
             ELSE LET result == HasActiveCondition(condition_set,
                                                   conditions[namespace], instances)
                      log2 == Append(log, CallEvent(key, condition_set,
                                                    conditions[namespace], instances))
                      vote == OnVote(result, return_value)
                  IN  IF result = "Raise"
                      THEN [kind |-> "raise", value |-> PyNone, log |-> log2]
                      ELSE IF vote.stop
                      THEN [kind |-> "return", value |-> vote.return_value, log |-> log2]
                      ELSE ScanConditions(by_ns, key, conditions, Tail(items),
                                          instances, vote.return_value, log2)

\* a scan that starts from the default instead of False
ScanStartFromDefault(default) == default

\* return_value = False, before the scan
ScanStart(default) == PyFalse

\* the switch's own part of is_active: lookup, status, conditions
OwnSwitch(store, by_ns, key, default, instances, order, log) ==
    LET got == GetItem(store, key)
        log1 == Append(log, LookupEvent(key))
    IN  IF got.kind = "KeyError"
        THEN [kind |-> "return", value |-> OnKeyError(default), log |-> log1]
        ELSE IF got.kind = "Error"
        THEN [kind |-> "raise", value |-> PyNone, log |-> log1]
        ELSE LET switch == got.switch
                 decided == StatusDispatch(switch, default)
                 conditions == switch.value
             IN  IF decided # "conditions"
                 THEN [kind |-> "return", value |-> decided, log |-> log1]
                 ELSE IF DOMAIN conditions = {}
                 THEN [kind |-> "return", value |-> OnNoConditions(default),
                       log |-> log1]
                 ELSE ScanConditions(by_ns, key, conditions,
                                     SelectSeq(order, LAMBDA n : n \in DOMAIN conditions),
                                     MergeInstances(instances), ScanStart(default), log1)

\* a handler that lets the error through to the caller
CaughtReraising(key, body) ==
    IF body.kind = "raise"
    THEN [ret |-> "Raise", log |-> body.log]
    ELSE [ret |-> body.value, log |-> body.log]

\* except: log.exception(...); return_value = False ... return return_value
Caught(key, body) ==
    IF body.kind = "raise"
    THEN [ret |-> PyFalse, log |-> Append(body.log, ErrorEvent(key))]
    ELSE [ret |-> body.value, log |-> body.log]

\* is_active(key, *instances, default=default) over the collection `store`
\* and the dict `by_ns` of the registered namespaces; order is the iteration
\* order of the condition dicts during the call
RECURSIVE IsActiveOn(_, _, _, _, _, _)
IsActiveOn(store, by_ns, key, default, instances, order) ==
    LET default0 == PopDefault(default)
        parts == Split(key)
        hasParent == Len(parts) > 1
        parent == IF hasParent
                  THEN IsActiveOn(store, by_ns, Join(Front(parts)), PyNone,
                                  instances, order)
                  ELSE [ret |-> PyNone, log |-> <<>>]
        after == IF hasParent THEN AfterParent(parent.ret, default0)
                 ELSE [stop |-> FALSE, default |-> default0]
    IN  Caught(key,
               IF after.stop
               THEN [kind |-> "return", value |-> PyFalse, log |-> parent.log]
               ELSE OwnSwitch(store, by_ns, key, after.default, instances, order,
                              parent.log))

\* is_active over the collection `store` and the registry as it is
IsActiveIn(store, key, default, instances, order) ==
    IsActiveOn(store, registry_by_namespace, key, default, instances, order)

\* operator.is_active(key, *instances, default=default)
IsActive(key, default, instances, order) ==
    IsActiveIn(switches, key, default, instances, order)

-----------------------------------------------------------------------------
(* The registry: SwitchManager.register / unregister *)

\* a condition set is handed over as an instance or as a factory of it
RegisterArgs == [callable : BOOLEAN, cs : ConditionSets]

\* if callable(condition_set): condition_set = condition_set()
Resolve(arg) == arg.cs

\* registry[condition_set.get_id()] = condition_set
RegisterById(reg, cs) == DictPut(reg, cs.id, cs)

\* a registration that rebuilds the dict around the new condition set
RegisterByNamespaceRebuilding(by_ns, cs) == DictPut(EmptyDict, cs.namespace, cs)

\* registry_by_namespace[condition_set.get_namespace()] = condition_set
RegisterByNamespace(by_ns, cs) == DictPut(by_ns, cs.namespace, cs)

\* unregister that leaves the id registered
UnregisterByIdKeeping(reg, cs) == reg

\* registry.pop(condition_set.get_id(), None)
UnregisterById(reg, cs) == DictPop(reg, cs.id)

\* unregister that leaves the namespace bound
UnregisterByNamespaceKeeping(by_ns, cs) == by_ns

\* registry_by_namespace.pop(condition_set.get_namespace(), None)
UnregisterByNamespace(by_ns, cs) == DictPop(by_ns, cs.namespace)

\* get_condition_sets(): registry.itervalues()
GetConditionSets == {registry[i] : i \in DOMAIN registry}

\* get_condition_set_by_id(switch_id): registry[switch_id], a KeyError when
\* the id is not registered
GetConditionSetById(switch_id) ==
    IF switch_id \in DOMAIN registry
    THEN [kind |-> "ok", condition_set |-> registry[switch_id]]
    ELSE [kind |-> "KeyError"]

\* registry_by_namespace.get(namespace): None when nothing is bound to it
GetByNamespace(namespace) ==
    IF namespace \in DOMAIN registry_by_namespace
    THEN [kind |-> "ok", condition_set |-> registry_by_namespace[namespace]]
    ELSE [kind |-> "None"]

Ids == {cs.id : cs \in ConditionSets}

-----------------------------------------------------------------------------
(* Requests *)

Requests == 1..MaxRequests

UserNames == <<"u1", "u2", "u3">>

\* the user on whose behalf request r runs
UserOf(r) == UserNames[r]

\* explicit instances a caller passes to is_active
ExplicitInstances == {<<>>, <<"u1">>, <<"u2">>, <<"u1", "u2">>}

Defaults == {PyTrue, PyFalse, NotGiven}

\* the requests a call belongs to: none, or the one whose handler made it
NoRequest == {}

\* no is_active call has been observed
NoCall == [key |-> <<>>, default |-> "-", instances |-> <<>>, ret |-> "-",
           log |-> <<>>, req |-> NoRequest]

Idle == [r \in Requests |-> "idle"]

\* get_all_conditions() has not been called
NoListing == [order |-> <<>>, out |-> <<>>]

\* no Switch has been saved or deleted
NoOutcome == [op |-> "-"]

\* no is_active call is under way
NotEvaluating == [state |-> "idle"]

\* no register or unregister call is under way
NoMutation == [state |-> "none"]

\* nothing was observed of the registry yet, nothing was written
AuxInit ==
    /\ journal = <<>>
    /\ listing = NoListing
    /\ versions = <<>>
    /\ outcome = NoOutcome
    /\ ev = NotEvaluating
    /\ mut = NoMutation

-----------------------------------------------------------------------------
(* Actions *)

\* is_active over a store that creates the Switch it does not find
IsActiveCallCreating(key, default, instances, order) ==
    /\ call = NoCall
    /\ LET r == IsActive(key, default, instances, order)
       IN  call' = [key |-> key, default |-> default, instances |-> instances,
                    ret |-> r.ret, log |-> r.log, req |-> NoRequest]
    /\ switches' = IF key \in DOMAIN switches THEN switches
                   ELSE DictPut(switches, key,
                                [status |-> DISABLED, value |-> EmptyDict])
    /\ UNCHANGED <<down, registry, registry_by_namespace, context, pc>>
    /\ UNCHANGED aux

\* a caller evaluates operator.is_active(key, *instances, default=default)
IsActiveCall(key, default, instances, order) ==
    /\ call = NoCall
    /\ LET r == IsActive(key, default, instances, order)
       IN  call' = [key |-> key, default |-> default, instances |-> instances,
                    ret |-> r.ret, log |-> r.log, req |-> NoRequest]
    /\ UNCHANGED <<switches, down, registry, registry_by_namespace, context, pc>>
    /\ UNCHANGED aux

\* the caller has taken the result
Return ==
    /\ call # NoCall
    /\ call.req = NoRequest
    /\ call' = NoCall
    /\ UNCHANGED <<switches, down, registry, registry_by_namespace, context, pc>>
    /\ UNCHANGED aux

\* operator.register(condition_set)
Register(arg) ==
    /\ call = NoCall
    /\ LET condition_set == Resolve(arg)
       IN  /\ registry' = RegisterById(registry, condition_set)
           /\ registry_by_namespace' =
                  RegisterByNamespace(registry_by_namespace, condition_set)
    /\ UNCHANGED <<switches, down, context, pc, call>>
    /\ UNCHANGED aux

\* operator.unregister(condition_set)
Unregister(arg) ==
    /\ call = NoCall
    /\ LET condition_set == Resolve(arg)
       IN  /\ registry' = UnregisterById(registry, condition_set)
           /\ registry_by_namespace' =
                  UnregisterByNamespace(registry_by_namespace, condition_set)
    /\ UNCHANGED <<switches, down, context, pc, call>>
    /\ UNCHANGED aux

\* a request handler binds its user as the ambient context of the shared
\* operator: operator.context['user'] = user
Bind(r) ==
    /\ pc[r] = "idle"
    /\ context' = DictPut(context, "user", UserOf(r))
    /\ pc' = [pc EXCEPT ![r] = "bound"]
    /\ UNCHANGED <<switches, down, registry, registry_by_namespace, call>>
    /\ UNCHANGED aux

\* the handler of request r evaluates operator.is_active(key, *instances)
RequestCall(r, key, default, instances, order) ==
    /\ pc[r] = "bound"
    /\ LET res == IsActive(key, default, instances, order)
       IN  call' = [key |-> key, default |-> default, instances |-> instances,
                    ret |-> res.ret, log |-> res.log, req |-> {r}]
    /\ pc' = [pc EXCEPT ![r] = "called"]
    /\ UNCHANGED <<switches, down, registry, registry_by_namespace, context>>
    /\ UNCHANGED aux

\* the handler of request r answers
Finish(r) ==
    /\ pc[r] = "called"
    /\ pc' = [pc EXCEPT ![r] = "idle"]
    /\ UNCHANGED <<switches, down, registry, registry_by_namespace, context, call>>
    /\ UNCHANGED aux

-----------------------------------------------------------------------------
(* Specification of the hierarchy: every store over the keys up to MaxDepth *)
(* whose conditions are readable and keep to namespace n1, a datastore that *)
(* answers, the condition sets A and C registered, is_active called on it   *)

Stores(K, R) == UNION {[D -> R] : D \in SUBSET K}

\* conditions in namespace n1 only
OneNamespaceValues == {v \in CondValues : DOMAIN v \subseteq {"n1"}}

HierValues == {v \in OneNamespaceValues : \A n \in DOMAIN v : v[n] # Malformed}

HierRecords == [status : Statuses, value : HierValues]

HierInstances == {<<>>, <<"u1">>}

\* a dict of one namespace iterates in one way
HierOrders == {CHOOSE o \in Orders : TRUE}

Init ==
    /\ switches \in Stores(Keys, HierRecords)
    /\ down = {}
    /\ registry = ("a" :> CsA @@ "c" :> CsC)
    /\ registry_by_namespace = ("n1" :> CsA @@ "n2" :> CsC)
    /\ context = EmptyDict
    /\ pc = Idle
    /\ call = NoCall
    /\ AuxInit

Next ==
    \/ \E key \in Keys, default \in Defaults, instances \in HierInstances,
          order \in HierOrders :
           IsActiveCall(key, default, instances, order)
    \/ Return

Spec == Init /\ [][Next]_vars

-----------------------------------------------------------------------------
(* Specification of the conditions: every switch on the child key a:b, a    *)
(* parent a with conditions in n1, a datastore that may fail on a key, the  *)
(* registry built up by register and unregister, is_active called on the    *)
(* outcome                                                                  *)

ParentKeyOfCond == KeyOfDepth(1)
ChildKeyOfCond == KeyOfDepth(2)
CondKeys == {ParentKeyOfCond, ChildKeyOfCond}

ParentRecords == [status : Statuses, value : OneNamespaceValues]

CondStores ==
    {p @@ c : p \in Stores({ParentKeyOfCond}, ParentRecords),
              c \in Stores({ChildKeyOfCond}, SwitchRecords)}

InitCond ==
    /\ switches \in CondStores
    /\ down \in SUBSET (CondKeys \ DOMAIN switches)
    /\ registry = EmptyDict
    /\ registry_by_namespace = EmptyDict
    /\ context = EmptyDict
    /\ pc = Idle
    /\ call = NoCall
    /\ AuxInit

NextCond ==
    \/ \E arg \in RegisterArgs : Register(arg)
    \/ \E arg \in RegisterArgs : Unregister(arg)
    \/ \E key \in CondKeys, default \in Defaults, instances \in ExplicitInstances,
          order \in Orders :
           IsActiveCall(key, default, instances, order)
    \/ Return

SpecCond == InitCond /\ [][NextCond]_vars

-----------------------------------------------------------------------------
(* Specification of the path from the root to the key: every store over the *)
(* keys up to MaxDepth with at most the one condition n1: INCLUDE, on a     *)
(* datastore that may fail on the keys it does not hold                     *)

PathRecords ==
    {s \in HierRecords : \A n \in DOMAIN s.value : s.value[n] = INCLUDE}

InitPath ==
    /\ switches \in Stores(Keys, PathRecords)
    /\ down \in SUBSET (Keys \ DOMAIN switches)
    /\ registry = ("a" :> CsA @@ "c" :> CsC)
    /\ registry_by_namespace = ("n1" :> CsA @@ "n2" :> CsC)
    /\ context = EmptyDict
    /\ pc = Idle
    /\ call = NoCall
    /\ AuxInit

NextPath ==
    \/ \E key \in Keys, default \in Defaults, instances \in HierInstances,
          order \in HierOrders :
           IsActiveCall(key, default, instances, order)
    \/ Return

SpecPath == InitPath /\ [][NextPath]_vars

-----------------------------------------------------------------------------
(* Specification of the requests: handlers run at the same time against the *)
(* one shared operator, each binding its user and then calling is_active on *)
(* a SELECTIVE switch                                                       *)

ReqKey == KeyOfDepth(1)

ReqRecords ==
    {s \in SwitchRecords : /\ s.status = SELECTIVE
                           /\ DOMAIN s.value # {}
                           /\ \A n \in DOMAIN s.value : s.value[n] # Malformed}

InitReq ==
    /\ switches \in [{ReqKey} -> ReqRecords]
    /\ down = {}
    /\ registry = ("a" :> CsA @@ "c" :> CsC)
    /\ registry_by_namespace = ("n1" :> CsA @@ "n2" :> CsC)
    /\ context = EmptyDict
    /\ pc = Idle
    /\ call = NoCall
    /\ AuxInit

NextReq ==
    \/ \E r \in Requests : Bind(r)
    \/ \E r \in Requests, default \in Defaults, order \in Orders :
           \E instances \in {<<>>, <<UserOf(r)>>} :
               RequestCall(r, ReqKey, default, instances, order)
    \/ \E r \in Requests : Finish(r)

SpecReq == InitReq /\ [][NextReq]_vars

-----------------------------------------------------------------------------
(* Enumeration of the registry: SwitchManager.get_all_conditions *)

\* the group labels, in ascending order
GroupLabels == <<"g1", "g2">>

\* condition_set.get_group_label()
GetGroupLabel(cs) == IF cs.id = "a" THEN "g2" ELSE "g1"

\* condition_set.fields.itervalues()
Fields(cs) ==
    IF cs.id = "a" THEN <<"f1", "f2">>
    ELSE IF cs.id = "b" THEN <<"f3">>
    ELSE <<"f4">>

\* the place of a label in the ascending order of the labels
Rank(label) == CHOOSE i \in DOMAIN GroupLabels : GroupLabels[i] = label

\* the orders in which the dict `registry` may iterate its keys
IterationOrders ==
    {o \in [1..Cardinality(Ids) -> Ids] : \A i, j \in DOMAIN o : o[i] = o[j] => i = j}

\* sorted without the key: the sequence as it came
SortedKeepingOrder(seq) == seq

\* sorted(cs, key=lambda x: x.get_group_label()): the sort is stable, a
\* condition set goes behind those before it whose label is not greater
RECURSIVE Sorted(_)
Sorted(seq) ==
    IF seq = <<>> THEN <<>>
    ELSE LET x == seq[Len(seq)]
             rest == Sorted(Front(seq))
             k == Cardinality({i \in DOMAIN rest :
                      Rank(GetGroupLabel(rest[i])) <= Rank(GetGroupLabel(x))})
         IN  SubSeq(rest, 1, k) \o <<x>> \o SubSeq(rest, k + 1, Len(rest))

\* for field in condition_set.fields.itervalues():
\*     yield condition_set.get_id(), group, field
Yields(cs) ==
    [i \in DOMAIN Fields(cs) |-> <<cs.id, GetGroupLabel(cs), Fields(cs)[i]>>]

RECURSIVE YieldAll(_)
YieldAll(seq) ==
    IF seq = <<>> THEN <<>> ELSE Yields(Head(seq)) \o YieldAll(Tail(seq))

\* get_all_conditions(), consumed to its end, the dict iterating in `order`
GetAllConditions(order) == YieldAll(Sorted(DictValues(registry, order)))

\* register and unregister calls a behaviour of the registry makes
MaxCalls == 3

\* operator.register(condition_set), the call recorded
RegisterCall(arg) ==
    /\ Len(journal) < MaxCalls
    /\ listing = NoListing
    /\ LET condition_set == Resolve(arg)
       IN  /\ registry' = RegisterById(registry, condition_set)
           /\ registry_by_namespace' =
                  RegisterByNamespace(registry_by_namespace, condition_set)
    /\ journal' = Append(journal, [op |-> "register", arg |-> arg])
    /\ UNCHANGED <<switches, down, context, pc, call, listing>>
    /\ UNCHANGED <<audit, race>>

\* operator.unregister(condition_set), the call recorded
UnregisterCall(arg) ==
    /\ Len(journal) < MaxCalls
    /\ listing = NoListing
    /\ LET condition_set == Resolve(arg)
       IN  /\ registry' = UnregisterById(registry, condition_set)
           /\ registry_by_namespace' =
                  UnregisterByNamespace(registry_by_namespace, condition_set)
    /\ journal' = Append(journal, [op |-> "unregister", arg |-> arg])
    /\ UNCHANGED <<switches, down, context, pc, call, listing>>
    /\ UNCHANGED <<audit, race>>

\* list(operator.get_all_conditions())
GetAllConditionsCall(order) ==
    /\ listing = NoListing
    /\ listing' = [order |-> order, out |-> GetAllConditions(order)]
    /\ UNCHANGED <<switches, down, registry, registry_by_namespace, context, pc,
                   call, journal>>
    /\ UNCHANGED <<audit, race>>

InitRegistry ==
    /\ switches = EmptyDict
    /\ down = {}
    /\ registry = EmptyDict
    /\ registry_by_namespace = EmptyDict
    /\ context = EmptyDict
    /\ pc = Idle
    /\ call = NoCall
    /\ AuxInit

NextRegistry ==
    \/ \E arg \in RegisterArgs : RegisterCall(arg)
    \/ \E arg \in RegisterArgs : UnregisterCall(arg)
    \/ \E order \in IterationOrders : GetAllConditionsCall(order)

SpecRegistry == InitRegistry /\ [][NextRegistry]_vars

-----------------------------------------------------------------------------
(* Versioning: SwitchManager.version_switch, connected to post_save and      *)
(* post_delete of the models                                                 *)

\* what a caller may bind as operator.context['user']
DictWithUsername == "dict with username"
DictWithoutUsername == "dict without username"
ObjectWithUsername == "object with username"
ObjectWithoutUsername == "object without username"

UserBindings ==
    {DictWithUsername, DictWithoutUsername, ObjectWithUsername,
     ObjectWithoutUsername, PyNone}

\* the name the users of the model carry
TheUsername == "alice"

\* hasattr(user, 'username')
HasUsername(user) == user = ObjectWithUsername

\* user.get('username', ''): only a dict has get, on anything else the
\* attribute lookup fails
GetUsername(user) ==
    IF user = DictWithUsername THEN [kind |-> "ok", value |-> TheUsername]
    ELSE IF user = DictWithoutUsername THEN [kind |-> "ok", value |-> ""]
    ELSE [kind |-> "AttributeError"]

\* the first try block of version_switch
ResolveUsername(ctx) ==
    LET user == IF "user" \in DOMAIN ctx THEN ctx["user"] ELSE DictWithoutUsername
    IN  IF HasUsername(user) THEN TheUsername
        ELSE IF GetUsername(user).kind = "AttributeError" THEN ""
        ELSE GetUsername(user).value

\* switch.save_version(username=username): writes the version record or
\* raises
SaveVersion(username, raises) ==
    IF raises
    THEN [kind |-> "raise", username |-> username, saved |-> FALSE, warned |-> FALSE]
    ELSE [kind |-> "return", username |-> username, saved |-> TRUE, warned |-> FALSE]

\* save_version called without the try block
SwallowedReraising(result) == result

\* try: switch.save_version(...) except: log.warning(...)
Swallowed(result) ==
    IF result.kind = "raise"
    THEN [result EXCEPT !.kind = "return", !.warned = TRUE]
    ELSE result

\* operator.version_switch(switch)
VersionSwitch(ctx, raises) == Swallowed(SaveVersion(ResolveUsername(ctx), raises))

\* version records a behaviour writes
MaxVersions == 2

\* the records written to the store
WrittenRecords == {s \in ParentRecords : s.status = SELECTIVE}

\* the outcome of a write whose post_save / post_delete receiver answered
\* with `hook`
Written(op, key, record, raises, hook) ==
    [op |-> op, key |-> key, record |-> record, raises |-> raises,
     result |-> hook.kind, username |-> hook.username, warned |-> hook.warned]

\* the version records after the receiver answered with `hook`
Versioned(key, hook) ==
    IF hook.saved
    THEN Append(versions, [key |-> key, username |-> hook.username])
    ELSE versions

\* a Switch is saved: the store writes it and sends post_save to
\* version_switch
SaveSwitch(key, record, raises) ==
    /\ call = NoCall
    /\ Len(versions) < MaxVersions
    /\ switches' = DictPut(switches, key, record)
    /\ LET hook == VersionSwitch(context, raises)
       IN  /\ versions' = Versioned(key, hook)
           /\ outcome' = Written("save", key, record, raises, hook)
    /\ UNCHANGED <<down, registry, registry_by_namespace, context, pc, call>>
    /\ UNCHANGED <<history, race>>

\* a Switch is deleted: the store removes it and sends post_delete to
\* version_switch
DeleteSwitch(key, raises) ==
    /\ call = NoCall
    /\ Len(versions) < MaxVersions
    /\ key \in DOMAIN switches
    /\ switches' = DictPop(switches, key)
    /\ LET hook == VersionSwitch(context, raises)
       IN  /\ versions' = Versioned(key, hook)
           /\ outcome' = Written("delete", key, switches[key], raises, hook)
    /\ UNCHANGED <<down, registry, registry_by_namespace, context, pc, call>>
    /\ UNCHANGED <<history, race>>

InitStore ==
    /\ switches = EmptyDict
    /\ down = {}
    /\ registry = ("a" :> CsA)
    /\ registry_by_namespace = ("n1" :> CsA)
    /\ context \in {EmptyDict} \cup {"user" :> u : u \in UserBindings}
    /\ pc = Idle
    /\ call = NoCall
    /\ AuxInit

NextStore ==
    \/ \E key \in CondKeys, record \in WrittenRecords, raises \in BOOLEAN :
           SaveSwitch(key, record, raises)
    \/ \E key \in CondKeys, raises \in BOOLEAN : DeleteSwitch(key, raises)
    \/ \E key \in CondKeys, default \in Defaults, order \in Orders :
           IsActiveCall(key, default, <<>>, order)
    \/ Return

SpecStore == InitStore /\ [][NextStore]_vars

-----------------------------------------------------------------------------
(* An is_active call and a register or unregister call running beside each *)
(* other, each statement by statement                                       *)

\* the prefix of the evaluated key the call has reached
ReachedKey == Join(SubSeq(Split(ev.key), 1, ev.n))

\* is_active on the reached prefix returns `result`: to the caller when the
\* prefix is the key, else to the is_active call on the next longer prefix
Returned(result) ==
    IF ev.n = Len(Split(ev.key))
    THEN [ev EXCEPT !.state = "done", !.ret = result,
                    !.at_end = registry_by_namespace]
    ELSE [ev EXCEPT !.state = "switch", !.n = ev.n + 1, !.parent = result]

\* what the handler of is_active returns for an exception raised on `key`
Failed(key) == Caught(key, [kind |-> "raise", value |-> PyNone, log |-> <<>>]).ret

\* is_active(key, *instances, default=default) is entered; its calls on the
\* parents go down to the first segment, whose call is the first to run on
BeginIsActive(key, default, instances, order) ==
    /\ ev.state = "idle"
    /\ ev' = [state |-> "switch", key |-> key, default |-> default,
              instances |-> instances, order |-> order, n |-> 1,
              parent |-> PyNone, items |-> <<>>, return_value |-> PyNone,
              ret |-> "-", at_start |-> registry_by_namespace,
              at_end |-> EmptyDict]
    /\ UNCHANGED <<switches, down, registry, registry_by_namespace, context, pc,
                   call, history, audit, mut>>

\* the call on the reached prefix takes its parent's result, looks its switch
\* up and decides on the status, or goes on to the conditions
ResolveSwitch ==
    /\ ev.state = "switch"
    /\ LET key == ReachedKey
           default0 == IF ev.n = Len(Split(ev.key)) THEN PopDefault(ev.default)
                       ELSE PopDefault(PyNone)
           after == IF ev.n > 1 THEN AfterParent(ev.parent, default0)
                    ELSE [stop |-> FALSE, default |-> default0]
           got == GetItem(switches, key)
           decided == StatusDispatch(got.switch, after.default)
           conditions == got.switch.value
       IN  ev' = IF after.stop THEN Returned(PyFalse)
                 ELSE IF got.kind = "KeyError"
                 THEN Returned(OnKeyError(after.default))
                 ELSE IF got.kind = "Error" THEN Returned(Failed(key))
                 ELSE IF decided # "conditions" THEN Returned(decided)
                 ELSE IF DOMAIN conditions = {}
                 THEN Returned(OnNoConditions(after.default))
                 ELSE [ev EXCEPT
                          !.state = "scan",
                          !.items = SelectSeq(ev.order,
                                              LAMBDA n : n \in DOMAIN conditions),
                          !.return_value = ScanStart(after.default)]
    /\ UNCHANGED <<switches, down, registry, registry_by_namespace, context, pc,
                   call, history, audit, mut>>

\* one round of the loop over the conditions: the namespace is looked up
\* in registry_by_namespace as it is now and its evaluator votes; after the
\* last round the call returns return_value
ScanStep ==
    /\ ev.state = "scan"
    /\ LET key == ReachedKey
           namespace == Head(ev.items)
           found == GetByNamespace(namespace)
           result == HasActiveCondition(found.condition_set,
                                        switches[key].value[namespace],
                                        MergeInstances(ev.instances))
           vote == OnVote(result, ev.return_value)
       IN  ev' = IF ev.items = <<>> THEN Returned(ev.return_value)
                 ELSE IF found.kind = "None"
                 THEN [ev EXCEPT !.items = Tail(ev.items)]
                 ELSE IF result = "Raise" THEN Returned(Failed(key))
                 ELSE IF vote.stop THEN Returned(vote.return_value)
                 ELSE [ev EXCEPT !.items = Tail(ev.items),
                                 !.return_value = vote.return_value]
    /\ UNCHANGED <<switches, down, registry, registry_by_namespace, context, pc,
                   call, history, audit, mut>>

\* register(condition_set) up to its first write
BeginRegister(arg) ==
    /\ mut.state = "none"
    /\ registry' = RegisterById(registry, Resolve(arg))
    /\ mut' = [state |-> "half", op |-> "register", cs |-> Resolve(arg)]
    /\ UNCHANGED <<switches, down, registry_by_namespace, context, pc, call,
                   history, audit, ev>>

\* unregister(condition_set) up to its first pop
BeginUnregister(arg) ==
    /\ mut.state = "none"
    /\ registry' = UnregisterById(registry, Resolve(arg))
    /\ mut' = [state |-> "half", op |-> "unregister", cs |-> Resolve(arg)]
    /\ UNCHANGED <<switches, down, registry_by_namespace, context, pc, call,
                   history, audit, ev>>

\* the second write of register, the second pop of unregister
FinishMutation ==
    /\ mut.state = "half"
    /\ registry_by_namespace' =
           IF mut.op = "register"
           THEN RegisterByNamespace(registry_by_namespace, mut.cs)
           ELSE UnregisterByNamespace(registry_by_namespace, mut.cs)
    /\ mut' = [mut EXCEPT !.state = "done"]
    /\ UNCHANGED <<switches, down, registry, context, pc, call, history, audit,
                   ev>>

\* the switches of the race: SELECTIVE, with readable conditions
RaceRecords ==
    {s \in SwitchRecords : /\ s.status = SELECTIVE
                           /\ \A n \in DOMAIN s.value : s.value[n] # Malformed}

RaceInstances == {<<"u1">>, <<"u2">>}

\* the registry when the race starts: condition sets of different
\* namespaces, each registered once
RaceRegistered ==
    {S \in SUBSET ConditionSets :
         \A e1, e2 \in S : e1.namespace = e2.namespace => e1 = e2}

InitRace ==
    /\ switches \in [CondKeys -> RaceRecords]
    /\ down = {}
    /\ \E S \in RaceRegistered :
           /\ registry = [id \in {e.id : e \in S} |->
                              CHOOSE e \in S : e.id = id]
           /\ registry_by_namespace = [n \in {e.namespace : e \in S} |->
                                           CHOOSE e \in S : e.namespace = n]
    /\ context = EmptyDict
    /\ pc = Idle
    /\ call = NoCall
    /\ AuxInit

NextRace ==
    \/ \E key \in CondKeys, default \in {PyTrue, PyFalse},
          instances \in RaceInstances, order \in Orders :
           BeginIsActive(key, default, instances, order)
    \/ ResolveSwitch
    \/ ScanStep
    \/ \E arg \in RegisterArgs : BeginRegister(arg)
    \/ \E arg \in RegisterArgs : BeginUnregister(arg)
    \/ FinishMutation

SpecRace == InitRace /\ [][NextRace]_vars

-----------------------------------------------------------------------------
(* Properties *)

Called == call # NoCall

HasParent(key) == Len(Split(key)) > 1

\* the key with one or more trailing segments dropped
ProperPrefixes(key) ==
    LET parts == Split(key)
    IN  {Join(SubSeq(parts, 1, n)) : n \in 1..(Len(parts) - 1)}

\* what is_active(key, *instances, default=None) resolves to, over the
\* iteration orders of the condition dicts
Resolutions(key, instances) ==
    {IsActive(key, PyNone, instances, o).ret : o \in Orders}

\* the key of the call is stored and the datastore reads it
Stored(key) == key \in DOMAIN switches /\ key \notin down

\* the key of the call is not stored: the lookup reports it absent
NotStored(key) == key \notin DOMAIN switches /\ key \notin down

\* the default a call falls back on when none of its ancestors decides
GivenDefault == IF call.default = NotGiven THEN PyFalse ELSE call.default

\* C1: if a proper prefix of the key, evaluated with the unset default,
\* resolves to False, is_active on the key returns False, whatever the
\* default and whatever the key's own switch holds.
C1_AncestorFalseVetoes ==
    Called =>
        \A p \in ProperPrefixes(call.key) :
            PyFalse \in Resolutions(p, call.instances) => call.ret = PyFalse

\* C1 witness: a resolves to False, a:b is not stored, a:b:c is GLOBAL and
\* is_active("a:b:c", default=True) returned False.
C1_Witness ==
    /\ Called
    /\ call.key = KeyOfDepth(3)
    /\ Resolutions(KeyOfDepth(1), call.instances) = {PyFalse}
    /\ NotStored(KeyOfDepth(2))
    /\ Stored(call.key)
    /\ switches[call.key].status = GLOBAL
    /\ call.default = PyTrue
    /\ call.ret = PyFalse

\* C2 as stated: for every key with no stored switch, is_active returns the
\* default given (False when none is given), whatever else is stored.
C2_AbsentReturnsGivenDefault ==
    (Called /\ NotStored(call.key)) => call.ret = GivenDefault

\* C2 amended: for every key with no stored switch whose parent key, if it
\* has one, resolves to None under the unset default (so no ancestor decides),
\* is_active returns the default given (False when none is given).
C2_AbsentUndecidedReturnsGivenDefault ==
    (/\ Called
     /\ NotStored(call.key)
     /\ HasParent(call.key) =>
            Resolutions(ParentKey(call.key), call.instances) = {PyNone})
    => call.ret = GivenDefault

\* C2 witness: a:b is not stored, its parent a is stored and resolves to
\* None, and is_active("a:b", default=True) returned True.
C2_Witness ==
    /\ Called
    /\ call.key = KeyOfDepth(2)
    /\ NotStored(call.key)
    /\ Stored(KeyOfDepth(1))
    /\ Resolutions(KeyOfDepth(1), call.instances) = {PyNone}
    /\ call.default = PyTrue
    /\ call.ret = PyTrue

\* C3: if the parent key resolves to True under the unset default, the call
\* falls back on True instead of its default (it returns True when its own
\* switch is not stored, is INHERIT or is SELECTIVE without conditions) and is
\* not forced to True (it returns False when its own switch is DISABLED).
C3_ParentTrueIsTheDefault ==
    (/\ Called
     /\ HasParent(call.key)
     /\ PyTrue \in Resolutions(ParentKey(call.key), call.instances)
     /\ call.key \notin down)
    => IF call.key \notin DOMAIN switches THEN call.ret = PyTrue
       ELSE LET switch == switches[call.key]
            IN  /\ switch.status = INHERIT => call.ret = PyTrue
                /\ (switch.status = SELECTIVE /\ DOMAIN switch.value = {})
                       => call.ret = PyTrue
                /\ switch.status = DISABLED => call.ret = PyFalse

\* C3 witness: the parent resolves to True, the key's own switch is SELECTIVE
\* without conditions and is_active(key, default=False) returned True.
C3_Witness ==
    /\ Called
    /\ HasParent(call.key)
    /\ Resolutions(ParentKey(call.key), call.instances) = {PyTrue}
    /\ Stored(call.key)
    /\ switches[call.key].status = SELECTIVE
    /\ DOMAIN switches[call.key].value = {}
    /\ call.default = PyFalse
    /\ call.ret = PyTrue

\* the condition set with the given id
ConditionSetOf(id) == CHOOSE cs \in ConditionSets : cs.id = id

\* the vote an evaluator gave in an "evaluate" event of the log
VoteOf(event) ==
    HasActiveCondition(ConditionSetOf(event.cs), event.payload, event.instances)

\* the evaluator calls made for the key during the call
EvaluationsFor(key) ==
    {i \in DOMAIN call.log : call.log[i].op = "evaluate" /\ call.log[i].key = key}

\* the vote of the evaluator registered for namespace n on the conditions of
\* the call's own switch
RegisteredVote(n) ==
    HasActiveCondition(registry_by_namespace[n], switches[call.key].value[n],
                       call.instances \o DictValues(context, ContextOrder))

\* the call is on a stored SELECTIVE switch that holds conditions
OnConditions ==
    /\ Called
    /\ Stored(call.key)
    /\ switches[call.key].status = SELECTIVE
    /\ DOMAIN switches[call.key].value # {}

\* C4: on a SELECTIVE switch with conditions, a False vote of a registered
\* evaluator makes is_active return False whatever the other namespaces vote,
\* and the result is the same for every iteration order of the conditions.
C4_VetoWinsInEveryOrder ==
    OnConditions =>
        /\ (\E n \in DOMAIN switches[call.key].value :
                /\ n \in DOMAIN registry_by_namespace
                /\ RegisteredVote(n) = PyFalse)
           => call.ret = PyFalse
        /\ \A o \in Orders :
               IsActive(call.key, call.default, call.instances, o).ret = call.ret

\* C4 witness: during the call on the switch an evaluator voted True, a later
\* one voted False, and is_active returned False.
C4_Witness ==
    /\ OnConditions
    /\ \E i, j \in EvaluationsFor(call.key) :
           /\ i < j
           /\ VoteOf(call.log[i]) = PyTrue
           /\ VoteOf(call.log[j]) = PyFalse
    /\ call.ret = PyFalse

\* an error struck during the call: the datastore failed on a lookup, or an
\* evaluator raised on its payload
FailedDuring(log) ==
    \E i \in DOMAIN log :
        \/ log[i].op = "lookup" /\ log[i].key \in down
        \/ log[i].op = "evaluate" /\ VoteOf(log[i]) = "Raise"

\* C5: is_active never raises to its caller, and a call during which the
\* store lookup failed or an evaluator raised, at the key or at an ancestor,
\* returns False whatever the default.
C5_ErrorsResolveToFalse ==
    Called =>
        /\ call.ret \in {PyTrue, PyFalse}
        /\ FailedDuring(call.log) => call.ret = PyFalse

\* C5 witness: an evaluator raised while an ancestor of the key was
\* evaluated, and is_active(key, default=True) returned False.
C5_Witness ==
    /\ Called
    /\ \E i \in DOMAIN call.log :
           /\ call.log[i].op = "evaluate"
           /\ VoteOf(call.log[i]) = "Raise"
           /\ call.log[i].key \in ProperPrefixes(call.key)
    /\ call.default = PyTrue
    /\ call.ret = PyFalse

\* C6: the instances handed to has_active_condition during a request's call
\* are that request's explicit instances and its own ambient user only.
C6_NoForeignAmbientValue ==
    Called =>
        \A r \in call.req :
            \A i \in DOMAIN call.log :
                call.log[i].op = "evaluate" =>
                    Range(call.log[i].instances)
                        \subseteq Range(call.instances) \cup {UserOf(r)}

\* C7: a SELECTIVE switch with conditions on which no namespace votes (each
\* is unregistered, or its evaluator abstains) makes is_active return False,
\* whatever the default given and whatever the ancestors resolve to.
C7_NoVoteIsInactive ==
    (/\ OnConditions
     /\ \A n \in DOMAIN switches[call.key].value :
            \/ n \notin DOMAIN registry_by_namespace
            \/ RegisteredVote(n) = PyNone)
    => call.ret = PyFalse

\* C7 witness: the parent resolves to True, the default given is True, one
\* namespace of the switch is unregistered, the other one's evaluator
\* abstained, and is_active returned False.
C7_Witness ==
    /\ OnConditions
    /\ HasParent(call.key)
    /\ Resolutions(ParentKey(call.key), call.instances) = {PyTrue}
    /\ call.default = PyTrue
    /\ \E n \in DOMAIN switches[call.key].value :
           n \notin DOMAIN registry_by_namespace
    /\ \E i \in EvaluationsFor(call.key) : VoteOf(call.log[i]) = PyNone
    /\ \A i \in EvaluationsFor(call.key) : VoteOf(call.log[i]) = PyNone
    /\ call.ret = PyFalse

\* the call is on a stored SELECTIVE switch that holds no conditions
OnEmptySelective ==
    /\ Called
    /\ Stored(call.key)
    /\ switches[call.key].status = SELECTIVE
    /\ DOMAIN switches[call.key].value = {}

\* the collection with the status of the key's switch changed
WithStatus(key, status) == [switches EXCEPT ![key].status = status]

\* C8: is_active on a key whose switch is SELECTIVE without conditions
\* returns what it returns with that switch made INHERIT, for every default
\* and every ancestor configuration, and calls no evaluator for the key.
C8_EmptySelectiveIsInherit ==
    OnEmptySelective =>
        /\ \A o \in Orders :
               call.ret = IsActiveIn(WithStatus(call.key, INHERIT), call.key,
                                     call.default, call.instances, o).ret
        /\ EvaluationsFor(call.key) = {}

\* C8 witness: is_active(key, default=True) on a SELECTIVE switch without
\* conditions, below a stored parent that resolves to None, returned True.
C8_Witness ==
    /\ OnEmptySelective
    /\ HasParent(call.key)
    /\ Stored(ParentKey(call.key))
    /\ Resolutions(ParentKey(call.key), call.instances) = {PyNone}
    /\ call.default = PyTrue
    /\ call.ret = PyTrue

\* C9: on a key none of whose ancestors resolves to False, is_active returns
\* True for a GLOBAL switch and False for a DISABLED one, whatever conditions
\* the switch holds, whatever is registered and whatever the default, and
\* calls no evaluator for the key.
C9_StatusAloneDecides ==
    (/\ Called
     /\ Stored(call.key)
     /\ \A p \in ProperPrefixes(call.key) :
            PyFalse \notin Resolutions(p, call.instances))
    => /\ switches[call.key].status = GLOBAL
              => call.ret = PyTrue /\ EvaluationsFor(call.key) = {}
       /\ switches[call.key].status = DISABLED
              => call.ret = PyFalse /\ EvaluationsFor(call.key) = {}

\* C9 witness: a GLOBAL switch holds a condition on which the registered
\* evaluator would vote False, and is_active(key, default=False) returned
\* True.
C9_Witness ==
    /\ Called
    /\ Stored(call.key)
    /\ switches[call.key].status = GLOBAL
    /\ \E n \in DOMAIN switches[call.key].value :
           /\ n \in DOMAIN registry_by_namespace
           /\ RegisteredVote(n) = PyFalse
    /\ call.default = PyFalse
    /\ call.ret = PyTrue

\* C10: after any register and unregister calls, get_condition_sets()
\* enumerates at most one condition set for each namespace.
C10_OneRegisteredPerNamespace ==
    \A e1, e2 \in GetConditionSets :
        e1.namespace = e2.namespace => e1 = e2

\* neither map of the registry holds the condition set
NotRegistered(cs) ==
    /\ GetConditionSetById(cs.id) # [kind |-> "ok", condition_set |-> cs]
    /\ GetByNamespace(cs.namespace) # [kind |-> "ok", condition_set |-> cs]

\* every lookup by id and by namespace answers in the next state what it
\* answers now
LookupsUnchanged ==
    /\ \A id \in Ids : GetConditionSetById(id)' = GetConditionSetById(id)
    /\ \A n \in Namespaces : GetByNamespace(n)' = GetByNamespace(n)

\* C11: unregister(e) of a condition set e that is not registered is a
\* no-op: every lookup by id and by namespace returns afterwards exactly
\* what it returned before.
C11_UnregisterAbsentIsNoOp ==
    [][\A arg \in RegisterArgs :
           (Unregister(arg) /\ NotRegistered(Resolve(arg)))
               => LookupsUnchanged]_vars

\* the step unregisters b or registers another condition set under the
\* namespace of b
Releases(b) ==
    \/ \E arg \in RegisterArgs : Resolve(arg) = b /\ Unregister(arg)
    \/ \E arg \in RegisterArgs :
           /\ Resolve(arg) # b
           /\ Resolve(arg).namespace = b.namespace
           /\ Register(arg)

\* C12: once a was registered and then b under the same namespace, the
\* lookup of that namespace keeps yielding b, and never a, over every step
\* that neither unregisters b nor registers another condition set under the
\* namespace.
C12_LaterRegistrationWins ==
    [][\A a, b \in ConditionSets :
           (/\ a # b
            /\ a.namespace = b.namespace
            /\ GetConditionSetById(a.id) = [kind |-> "ok", condition_set |-> a]
            /\ GetByNamespace(b.namespace) = [kind |-> "ok", condition_set |-> b]
            /\ ~Releases(b))
               => GetByNamespace(b.namespace)'
                      = [kind |-> "ok", condition_set |-> b]]_vars

\* C20: every condition set a namespace lookup returns is the condition set
\* get_condition_set_by_id returns for its id.
C20_ByNamespaceIsRegisteredById ==
    \A n \in Namespaces :
        GetByNamespace(n).kind = "ok"
            => GetConditionSetById(GetByNamespace(n).condition_set.id)
                   = GetByNamespace(n)

\* C20 witness: b was registered over a and then c was unregistered; the
\* lookup of namespace n1 returns b, which is registered under its id
\* beside a.
C20_Witness ==
    /\ GetByNamespace("n1") = [kind |-> "ok", condition_set |-> CsB]
    /\ GetConditionSetById("b") = GetByNamespace("n1")
    /\ GetConditionSetById("a").kind = "ok"
    /\ GetByNamespace("n2").kind = "None"

\* the last two calls of the journal registered and then unregistered e,
\* handed over the same way both times
RoundTrip(e, callable) ==
    /\ Len(journal) >= 2
    /\ journal[Len(journal) - 1] =
           [op |-> "register", arg |-> [callable |-> callable, cs |-> e]]
    /\ journal[Len(journal)] =
           [op |-> "unregister", arg |-> [callable |-> callable, cs |-> e]]

\* C13: right after register(e) followed by unregister(e), from any registry,
\* get_condition_set_by_id(e.id) fails with the KeyError and the lookup of
\* e's namespace finds nothing; the same when e is handed over as a factory
\* both times.
C13_RegisterUnregisterRoundTrip ==
    \A e \in ConditionSets, callable \in BOOLEAN :
        RoundTrip(e, callable)
            => /\ GetConditionSetById(e.id) = [kind |-> "KeyError"]
               /\ GetByNamespace(e.namespace) = [kind |-> "None"]

\* C13 witness: b was registered, then a factory of a (same namespace) was
\* registered and unregistered; b is still registered under its id.
C13_Witness ==
    /\ RoundTrip(CsA, TRUE)
    /\ journal[1] = [op |-> "register", arg |-> [callable |-> FALSE, cs |-> CsB]]
    /\ GetConditionSetById("b").kind = "ok"
    /\ GetConditionSetById("a") = [kind |-> "KeyError"]


\* the tuples get_all_conditions() owes: one for each field of each
\* registered condition set
OwedTuples ==
    UNION {{<<cs.id, GetGroupLabel(cs), f>> : f \in Range(Fields(cs))} :
               cs \in GetConditionSets}

\* the calls of the journal that registered the condition set of this id
RegisteredAt(id) ==
    {i \in DOMAIN journal :
         journal[i].op = "register" /\ Resolve(journal[i].arg).id = id}

\* both condition sets were registered once, this one first
RegisteredBefore(id1, id2) ==
    \E i \in RegisteredAt(id1), j \in RegisteredAt(id2) :
        /\ RegisteredAt(id1) = {i}
        /\ RegisteredAt(id2) = {j}
        /\ i < j

\* C16: get_all_conditions() yields exactly one (id, group label, field)
\* tuple for each field of each registered condition set, the condition sets
\* in ascending order of their group label and those of equal label in the
\* order in which they were registered.
C16_ListedByLabelThenRegistration ==
    listing # NoListing =>
        LET out == listing.out
        IN  /\ Range(out) = OwedTuples
            /\ Len(out) = Cardinality(OwedTuples)
            /\ \A i, j \in DOMAIN out :
                   i < j => Rank(out[i][2]) <= Rank(out[j][2])
            /\ \A i, j \in DOMAIN out :
                   (/\ out[i][2] = out[j][2]
                    /\ RegisteredBefore(out[i][1], out[j][1]))
                       => i < j

\* the name a binding of the ambient user carries, if any
NameOf(ctx) ==
    IF /\ "user" \in DOMAIN ctx
       /\ ctx["user"] \in {DictWithUsername, ObjectWithUsername}
    THEN TheUsername
    ELSE ""

\* C14: when save_version raises in the version_switch a save or a delete
\* of a Switch triggered, version_switch returns normally and the save or
\* delete stands as it would without the failure, whatever is bound as the
\* ambient user; the user label is the bound name, and the empty string
\* when the binding has none.
C14_VersioningFailureIsSwallowed ==
    (outcome # NoOutcome /\ outcome.raises)
        => /\ outcome.result = "return"
           /\ outcome.warned
           /\ outcome.username = NameOf(context)
           /\ outcome.op = "save"
                  => GetItem(switches, outcome.key)
                         = [kind |-> "ok", switch |-> outcome.record]
           /\ outcome.op = "delete"
                  => GetItem(switches, outcome.key).kind = "KeyError"

\* C14 witness: an object without a username attribute is bound as the
\* user; a Switch was saved and versioned, then deleted while save_version
\* raised.
C14_Witness ==
    /\ outcome # NoOutcome
    /\ outcome.raises
    /\ outcome.op = "delete"
    /\ context = ("user" :> ObjectWithoutUsername)
    /\ versions = <<[key |-> outcome.key, username |-> ""]>>

\* the step is an is_active call
IsActiveStep == call' # call /\ call' # NoCall

PrefixOfLength(n) == Join(SubSeq(Split(call.key), 1, n))

\* the keys the call looked up in the store, in the order of the lookups
LookedUp ==
    LET lookups == SelectSeq(call.log, LAMBDA e : e.op = "lookup")
    IN  [i \in DOMAIN lookups |-> lookups[i].key]

\* the length of the first prefix of the call's key, from n segments on,
\* that resolves to False, and the length of the key when none of its proper
\* prefixes does: the prefixes the call has to look up
RECURSIVE FirstFalseFrom(_)
FirstFalseFrom(n) ==
    IF n >= Len(Split(call.key)) THEN Len(Split(call.key))
    ELSE IF Resolutions(PrefixOfLength(n), call.instances) = {PyFalse} THEN n
    ELSE FirstFalseFrom(n + 1)

LastLookedUp == FirstFalseFrom(1)

\* C17: within one is_active call the store is looked up root-first, one
\* prefix after the other, everything done for a prefix coming before the
\* lookup of the next longer one, and nothing at all is looked up or
\* evaluated beyond the first prefix that resolves to False.
C17_RootFirstAndShortCircuit ==
    Called =>
        LET last == LastLookedUp
            depth == [i \in DOMAIN call.log |-> Len(Split(call.log[i].key))]
        IN  /\ LookedUp = [n \in 1..last |-> PrefixOfLength(n)]
            /\ \A i, j \in DOMAIN depth : i < j => depth[i] <= depth[j]
            /\ \A i \in DOMAIN depth : depth[i] <= last

\* C17 witness: is_active on a:b:c evaluated the condition of a, found a:b
\* DISABLED and stopped there, while a:b:c holds a condition of its own.
C17_Witness ==
    /\ Called
    /\ call.key = KeyOfDepth(3)
    /\ EvaluationsFor(KeyOfDepth(1)) # {}
    /\ Stored(KeyOfDepth(2))
    /\ switches[KeyOfDepth(2)].status = DISABLED
    /\ Stored(call.key)
    /\ switches[call.key].status = SELECTIVE
    /\ DOMAIN switches[call.key].value # {}
    /\ LookedUp = <<KeyOfDepth(1), KeyOfDepth(2)>>
    /\ call.ret = PyFalse

\* the votes of the registered evaluators on the conditions of the switch
\* stored for key p
VotesAt(p) ==
    {HasActiveCondition(registry_by_namespace[n], switches[p].value[n],
                        MergeInstances(call.instances)) :
         n \in DOMAIN switches[p].value \cap DOMAIN registry_by_namespace}

\* the own verdict of the prefix p of the call's key
Verdict(p) ==
    IF p \in down THEN "Inactive"
    ELSE IF p \notin DOMAIN switches THEN "Unset"
    ELSE IF switches[p].status = GLOBAL THEN "Active"
    ELSE IF switches[p].status = DISABLED THEN "Inactive"
    ELSE IF switches[p].status = INHERIT THEN "Unset"
    ELSE IF DOMAIN switches[p].value = {} THEN "Unset"
    ELSE IF VotesAt(p) \cap {PyFalse, "Raise"} # {} THEN "Inactive"
    ELSE IF PyTrue \in VotesAt(p) THEN "Active"
    ELSE "Inactive"

\* the own verdicts of the prefixes of the call's key, the key included
Verdicts == {Verdict(PrefixOfLength(n)) : n \in 1..Len(Split(call.key))}

\* C19: is_active(k, default=d) is False if the own verdict of any prefix of
\* k (k included) is Inactive, otherwise True if any is Active, otherwise d;
\* the result is always True or False.
C19_ClosedFormOfTheHierarchy ==
    Called =>
        /\ call.ret \in {PyTrue, PyFalse}
        /\ call.ret = IF "Inactive" \in Verdicts THEN PyFalse
                      ELSE IF "Active" \in Verdicts THEN PyTrue
                      ELSE GivenDefault

\* C19 witness: the evaluator registered for the one condition of a votes
\* True, the datastore fails on a:b, and is_active(a:b, default=True)
\* returned False.
C19_Witness ==
    /\ Called
    /\ call.key = ChildKeyOfCond
    /\ Stored(ParentKeyOfCond)
    /\ switches[ParentKeyOfCond].status = SELECTIVE
    /\ Verdict(ParentKeyOfCond) = "Active"
    /\ Verdict(call.key) = "Inactive"
    /\ call.key \in down
    /\ call.default = PyTrue
    /\ call.ret = PyFalse

\* the is_active call that ran beside the mutation has returned
Raced == ev.state = "done"

\* what the call returns when it is evaluated in one piece against the
\* namespaces registered when it started, and when it returned
WholeResults ==
    {IsActiveOn(switches, by_ns, ev.key, ev.default, ev.instances, ev.order).ret :
         by_ns \in {ev.at_start, ev.at_end}}

\* C18: an is_active call beside which one register or unregister call
\* makes its two writes, at any point among the namespace lookups, does not
\* fail and returns what it would return evaluated in one piece against the
\* registry before or after the mutation.
C18_ResultAsBeforeOrAfter ==
    Raced => /\ ev.ret \in {PyTrue, PyFalse}
             /\ ev.ret \in WholeResults

\* C18, amended: the call does not fail, and on a key of one segment it
\* returns what it would return evaluated in one piece against the registry
\* before or after the mutation.
C18_OneSegmentResultAsBeforeOrAfter ==
    Raced => /\ ev.ret \in {PyTrue, PyFalse}
             /\ Len(Split(ev.key)) = 1 => ev.ret \in WholeResults

\* C18 witness: a call on the one-segment key returned while the namespace
\* dict changed under it, and the registries before and after give
\* different results.
C18_Witness ==
    /\ Raced
    /\ Len(Split(ev.key)) = 1
    /\ ev.at_start # ev.at_end
    /\ Cardinality(WholeResults) = 2
    /\ Cardinality(DOMAIN switches[ev.key].value) = 2

=============================================================================
